---- MODULE Spec2Model ----
(***************************************************************************)
(* Model of package chatdb (chatdb.go): the four read operations of chatDB *)
(* over the Messages store, GetHandleMap, GetChats, GetMessageIDs and      *)
(* GetMessage, with the database/sql cursor (Query / Next / Scan / Close)  *)
(* they drive.  Every operation is one action; the storage layer may fail  *)
(* at any of its calls (failAt).                                           *)
(***************************************************************************)
EXTENDS Integers, Sequences, FiniteSets, TLC

\* ------------------------------------------------------------------ bounds
\* Largest number of rows a relation of the store holds.
MaxRows == 2

\* ------------------------------------------------------------ value domains
\* SQL NULL in a text column and in an integer column.
NullText == "<NULL>"
NullInt == -1

HandleIDs == {1, 2}
Addresses == {"+15551234567", "alice@example.com"}
ChatIDs == {1, 2}
MessageIDs == {1, 2}
SelfHandles == {"Me"}

\* The date column holds an integer count since 2001-01-01 (nanoseconds in the
\* modern schema, seconds in the legacy one).
MessageDates == {1000000000}

\* ------------------------------------------------------------ the constants
_datetimeFormulaLegacy == "date + STRFTIME('%s', '2001-01-01 00:00:00'), 'unixepoch', 'localtime'"
_datetimeFormula == "(date/1000000000) + STRFTIME('%s', '2001-01-01 00:00:00'), 'unixepoch', 'localtime'"
\* A formula a caller may set as the override (chatDB.datetimeFormula).
OverrideFormula == "date, 'unixepoch'"

\* semver.MustParse("10.13"): <<major, minor, patch>>.
_modernVersion == <<10, 13, 0>>
\* A nil *semver.Version.
NilVersion == <<>>

\* STRFTIME('%s', '2001-01-01 00:00:00'): seconds from 1970 to 2001.
EpochOffset == 978307200
\* The divisor of the modern formula.
NanoScale == 1000000000

\* ------------------------------------------------------------------- errors
\* An error value: the context the operation wraps it in, the identifier the
\* context names (0 when it names none) and the wrapped cause ("" for an error
\* built with fmt.Errorf).
NoError == [ctx |-> "", id |-> 0, cause |-> ""]
Wrap(cause, ctx, id) == [ctx |-> ctx, id |-> id, cause |-> cause]

\* Causes produced below the operations.
StorageFailure == "storage failure"
ErrRowsClosed == "sql: Rows are closed"
ErrScanNoNext == "sql: Scan called without calling Next"
ErrScanNull == "sql: Scan error: converting NULL is unsupported"

\* ------------------------------------------------------- database/sql cursor
\* failAt numbers the storage call that fails: 0 none, 1 the Query, k + 1 the
\* k-th Next.  A cursor counts the storage calls made so far.
Query(rows, failAt) ==
    IF failAt = 1
    THEN [ok |-> FALSE, rows |-> <<>>, pos |-> 0, calls |-> 1, closed |-> TRUE,
          lasterr |-> StorageFailure]
    ELSE [ok |-> TRUE, rows |-> rows, pos |-> 0, calls |-> 1, closed |-> FALSE,
          lasterr |-> ""]

\* Rows.Next: FALSE at the end of the result set and on a storage failure; in both
\* cases the cursor closes itself and keeps the reason in lasterr.
RowsNext(cur, failAt) ==
    IF cur.closed
    THEN [cur EXCEPT !.ok = FALSE]
    ELSE IF failAt = cur.calls + 1
    THEN [cur EXCEPT !.ok = FALSE, !.calls = @ + 1, !.closed = TRUE,
                     !.lasterr = StorageFailure]
    ELSE IF cur.pos >= Len(cur.rows)
    THEN [cur EXCEPT !.ok = FALSE, !.calls = @ + 1, !.closed = TRUE,
                     !.lasterr = "EOF"]
    ELSE [cur EXCEPT !.ok = TRUE, !.calls = @ + 1, !.pos = @ + 1]

\* Rows.Scan: the error it returns ("" for none).  decodes tells whether every
\* column of the current row converts to its destination's type.
RowsScan(cur, decodes) ==
    IF cur.lasterr \notin {"", "EOF"} THEN cur.lasterr
    ELSE IF cur.closed THEN ErrRowsClosed
    ELSE IF cur.pos = 0 THEN ErrScanNoNext
    ELSE IF ~decodes THEN ErrScanNull
    ELSE ""

\* Faulty variant of RowsClose: the Close is not run, so only a cursor that Next
\* has already closed is released.
RowsCloseSkipped(cur) == cur

\* Rows.Close, as the deferred call of every operation runs it.
RowsClose(cur) == [cur EXCEPT !.closed = TRUE]

\* ------------------------------------------------------------------- vcard
\* A contact card: whether it has a name (N) field, the given name of that
\* field, and its preferred formatted name (FN), "" when it has none.
Cards ==
    [hasName : BOOLEAN, GivenName : {"", "Alice"}, FormattedName : {"", "The Smiths"}]

\* card.Name() is nil for a card without a name field.
NameIsNil(card) == ~card.hasName
PreferredFormattedName(card) == card.FormattedName

\* ------------------------------------------------------------------ results
\* What a call hands back: the returned value (nil marks a nil map or slice, or
\* the empty string of GetMessage), the error, whether the call acquired a cursor,
\* whether that cursor is still open after the return, and, for GetMessage, the
\* formula it put in the query and the caller's handle map as the call leaves it.
ZeroOutcome ==
    [nil |-> TRUE, handleMap |-> <<>>, chats |-> <<>>, messageIDs |-> <<>>,
     line |-> <<>>, err |-> NoError, acquired |-> FALSE, open |-> FALSE,
     formula |-> ""]

\* A deferred Close runs when the operation returns, whatever the path.
Returned(out, cur) == [out EXCEPT !.acquired = TRUE, !.open = ~RowsClose(cur).closed]

\* --------------------------------------------------------------- GetHandleMap
\* SELECT ROWID, id FROM handle
SelectHandles(handle) == handle

\* handles.Scan(&handleID, &handle)
HandleDecodes(row) == row.id # NullText

\* Faulty variant of HasKey: the identifier is never found, so a repeated
\* identifier overwrites the entry.
HasKeyNever(handleMap, handleID) == FALSE

\* _, ok := handleMap[handleID]
HasKey(handleMap, handleID) == handleID \in DOMAIN handleMap

\* Faulty variant of ResolveHandle: the given name is taken even when empty.
ResolveHandleAnyName(handle, contactMap) ==
    IF handle \in DOMAIN contactMap /\ ~NameIsNil(contactMap[handle])
    THEN contactMap[handle].GivenName
    ELSE handle

\* The contact's given name for an address that has one, else the address.
ResolveHandle(handle, contactMap) ==
    IF handle \in DOMAIN contactMap
    THEN LET card == contactMap[handle]
         IN  IF ~NameIsNil(card) /\ card.GivenName # ""
             THEN card.GivenName
             ELSE handle
    ELSE handle

\* handleMap[handleID] = handle
MapSet(m, k, v) == [x \in DOMAIN m \cup {k} |-> IF x = k THEN v ELSE m[x]]

RECURSIVE HandleLoop(_, _, _, _)
HandleLoop(cur0, handleMap, contactMap, failAt) ==
    LET cur == RowsNext(cur0, failAt)
    IN  IF ~cur.ok
        THEN Returned([ZeroOutcome EXCEPT !.nil = FALSE, !.handleMap = handleMap], cur)
        ELSE LET row == cur.rows[cur.pos]
                 scanErr == RowsScan(cur, HandleDecodes(row))
             IN  IF scanErr # ""
                 THEN Returned([ZeroOutcome EXCEPT !.err = Wrap(scanErr, "read handle", 0)], cur)
                 ELSE IF HasKey(handleMap, row.ROWID)
                 THEN Returned([ZeroOutcome EXCEPT
                                  !.err = Wrap("", "multiple handles with the same ID", row.ROWID)],
                               cur)
                 ELSE HandleLoop(cur,
                                 MapSet(handleMap, row.ROWID, ResolveHandle(row.id, contactMap)),
                                 contactMap, failAt)

GetHandleMap(handle, contactMap, failAt) ==
    LET handles == Query(SelectHandles(handle), failAt)
    IN  IF ~handles.ok
        THEN [ZeroOutcome EXCEPT !.err = Wrap(handles.lasterr, "get handles from DB", 0)]
        ELSE HandleLoop(handles, <<>>, contactMap, failAt)

\* ------------------------------------------------------------------- GetChats
\* COALESCE(x, '')
Coalesce(x, default) == IF x = NullText THEN default ELSE x

\* SELECT ROWID, guid, chat_identifier, COALESCE(display_name, '') FROM chat
SelectChats(chat) ==
    [i \in 1..Len(chat) |->
        [ROWID |-> chat[i].ROWID, guid |-> chat[i].guid,
         chat_identifier |-> chat[i].chat_identifier,
         display_name |-> Coalesce(chat[i].display_name, "")]]

\* chatRows.Scan(&id, &guid, &name, &displayName)
ChatDecodes(row) == row.guid # NullText /\ row.chat_identifier # NullText

\* Faulty variant of ResolveChatName: the contact is looked up under the chat
\* identifier instead of the resolved name.
ResolveChatNameByIdentifier(name, displayName0, contactMap) ==
    LET displayName == IF displayName0 = "" THEN name ELSE displayName0
    IN  IF name \in DOMAIN contactMap
        THEN LET contactName == PreferredFormattedName(contactMap[name])
             IN  IF contactName # "" THEN contactName ELSE displayName
        ELSE displayName

\* The display name of a chat row: the display-name column, else the chat
\* identifier; then the contact's formatted name when that name is a contact.
ResolveChatName(name, displayName0, contactMap) ==
    LET displayName == IF displayName0 = "" THEN name ELSE displayName0
    IN  IF displayName \in DOMAIN contactMap
        THEN LET contactName == PreferredFormattedName(contactMap[displayName])
             IN  IF contactName # "" THEN contactName ELSE displayName
        ELSE displayName

RECURSIVE ChatLoop(_, _, _, _)
ChatLoop(cur0, chats, contactMap, failAt) ==
    LET cur == RowsNext(cur0, failAt)
    IN  IF ~cur.ok
        THEN Returned([ZeroOutcome EXCEPT !.nil = FALSE, !.chats = chats], cur)
        ELSE LET row == cur.rows[cur.pos]
                 scanErr == RowsScan(cur, ChatDecodes(row))
             IN  IF scanErr # ""
                 THEN Returned([ZeroOutcome EXCEPT !.err = Wrap(scanErr, "read chat", 0)], cur)
                 ELSE ChatLoop(cur,
                               Append(chats,
                                      [ID |-> row.ROWID, GUID |-> row.guid,
                                       DisplayName |->
                                           ResolveChatName(row.chat_identifier,
                                                           row.display_name, contactMap)]),
                               contactMap, failAt)

GetChats(chat, contactMap, failAt) ==
    LET chatRows == Query(SelectChats(chat), failAt)
    IN  IF ~chatRows.ok
        THEN [ZeroOutcome EXCEPT !.err = Wrap(chatRows.lasterr, "query chats table", 0)]
        ELSE ChatLoop(chatRows, <<>>, contactMap, failAt)

\* -------------------------------------------------------------- GetMessageIDs
\* SELECT message_id FROM chat_message_join WHERE chat_id=<chatID>
SelectMessageIDs(chat_message_join, chatID) ==
    LET IsOfChat(r) == r.chat_id = chatID
        matching == SelectSeq(chat_message_join, IsOfChat)
    IN  [i \in 1..Len(matching) |-> [message_id |-> matching[i].message_id]]

\* rows.Scan(&messageID)
JoinDecodes(row) == row.message_id # NullInt

\* Faulty variant of AppendID: an identifier already collected is dropped.
AppendIDOnce(messageIDs, messageID) ==
    IF \E i \in DOMAIN messageIDs : messageIDs[i] = messageID
    THEN messageIDs
    ELSE Append(messageIDs, messageID)

\* messageIDs = append(messageIDs, messageID)
AppendID(messageIDs, messageID) == Append(messageIDs, messageID)

RECURSIVE IDLoop(_, _, _, _)
IDLoop(cur0, messageIDs, chatID, failAt) ==
    LET cur == RowsNext(cur0, failAt)
    IN  IF ~cur.ok
        THEN Returned([ZeroOutcome EXCEPT !.nil = FALSE, !.messageIDs = messageIDs], cur)
        ELSE LET row == cur.rows[cur.pos]
                 scanErr == RowsScan(cur, JoinDecodes(row))
             IN  IF scanErr # ""
                 THEN Returned([ZeroOutcome EXCEPT
                                  !.err = Wrap(scanErr, "read message ID for chat ID", chatID)],
                               cur)
                 ELSE IDLoop(cur, AppendID(messageIDs, row.message_id), chatID, failAt)

GetMessageIDs(chat_message_join, chatID, failAt) ==
    LET rows == Query(SelectMessageIDs(chat_message_join, chatID), failAt)
    IN  IF ~rows.ok
        THEN [ZeroOutcome EXCEPT
                !.err = Wrap(rows.lasterr, "query chat_message_join table for chat ID", chatID)]
        ELSE IDLoop(rows, <<>>, chatID, failAt)

\* ----------------------------------------------------------------- GetMessage
\* Faulty variant of LessThan: less than or equal.
LessThanOrEqual(v, o) ==
    \/ v[1] < o[1]
    \/ v[1] = o[1] /\ v[2] < o[2]
    \/ v[1] = o[1] /\ v[2] = o[2] /\ v[3] <= o[3]

\* Version.LessThan: the order of <<major, minor, patch>>.
LessThan(v, o) ==
    \/ v[1] < o[1]
    \/ v[1] = o[1] /\ v[2] < o[2]
    \/ v[1] = o[1] /\ v[2] = o[2] /\ v[3] < o[3]

getDatetimeFormula(datetimeFormula, macOSVersion) ==
    IF datetimeFormula # ""
    THEN datetimeFormula
    ELSE IF macOSVersion # NilVersion /\ LessThan(macOSVersion, _modernVersion)
    THEN _datetimeFormulaLegacy
    ELSE _datetimeFormula

\* DATETIME(<formula>) of a stored date, in seconds since 1970; its rendering as
\* local time is the store's.
Datetime(formula, date) ==
    IF formula = _datetimeFormulaLegacy THEN date + EpochOffset
    ELSE IF formula = _datetimeFormula THEN (date \div NanoScale) + EpochOffset
    ELSE date

\* SELECT is_from_me, handle_id, COALESCE(text, ''), DATETIME(<formula>)
\* FROM message WHERE ROWID=<messageID>
SelectMessage(message, formula, messageID) ==
    LET HasID(r) == r.ROWID = messageID
        matching == SelectSeq(message, HasID)
    IN  [i \in 1..Len(matching) |->
            [is_from_me |-> matching[i].is_from_me, handle_id |-> matching[i].handle_id,
             text |-> Coalesce(matching[i].text, ""),
             date |-> Datetime(formula, matching[i].date)]]

\* messages.Scan(&fromMe, &handleID, &text, &date)
MessageDecodes(row) == row.handle_id # NullInt

\* Faulty variant of MapIndex: reading an absent key inserts it with the zero
\* value.
MapIndexInserting(handleMap, handleID) ==
    [value |-> IF handleID \in DOMAIN handleMap THEN handleMap[handleID] ELSE "",
     map |-> [x \in DOMAIN handleMap \cup {handleID} |->
                 IF x \in DOMAIN handleMap THEN handleMap[x] ELSE ""]]

\* handleMap[handleID]: the value read (the zero value for an absent key) and
\* the map after the read.
MapIndex(handleMap, handleID) ==
    [value |-> IF handleID \in DOMAIN handleMap THEN handleMap[handleID] ELSE "",
     map |-> handleMap]

\* fmt.Sprintf("[%s] %s: %s\n", date, handle, text), as the pieces in order.
FormatLine(date, handle, text) == <<"[", date, "] ", handle, ": ", text, "\n">>

GetMessage(message, messageID, handleMap, macOSVersion, datetimeFormula, selfHandle, failAt) ==
    LET formula == getDatetimeFormula(datetimeFormula, macOSVersion)
        zero == [ZeroOutcome EXCEPT !.formula = formula, !.handleMap = handleMap]
        messages == Query(SelectMessage(message, formula, messageID), failAt)
    IN  IF ~messages.ok
        THEN [zero EXCEPT !.err = Wrap(messages.lasterr, "query message table for ID", messageID)]
        ELSE LET first == RowsNext(messages, failAt)
                 scanErr == RowsScan(first, MessageDecodes(first.rows[first.pos]))
             IN  IF scanErr # ""
                 THEN Returned([zero EXCEPT
                                  !.err = Wrap(scanErr, "read data for message ID", messageID)],
                               first)
                 ELSE LET row == first.rows[first.pos]
                          second == RowsNext(first, failAt)
                      IN  IF second.ok
                          THEN Returned([zero EXCEPT
                                           !.err = Wrap("", "multiple messages with the same ID",
                                                        messageID)],
                                        second)
                          ELSE LET read == MapIndex(handleMap, row.handle_id)
                                   handle == IF row.is_from_me = 1 THEN selfHandle ELSE read.value
                               IN  Returned([zero EXCEPT
                                               !.nil = FALSE, !.handleMap = read.map,
                                               !.line = FormatLine(row.date, handle, row.text)],
                                            second)

\* ---------------------------------------------------------------------- state
VARIABLES
    handle,             \* the handle relation: rows [ROWID, id], in the store's order
    chat,               \* the chat relation: rows [ROWID, guid, chat_identifier, display_name]
    chat_message_join,  \* the join relation: rows [chat_id, message_id]
    message,            \* the message relation: rows [ROWID, is_from_me, handle_id, text, date]
    selfHandle,         \* chatDB.selfHandle
    datetimeFormula,    \* chatDB.datetimeFormula, "" when no override is set
    contactMap,         \* the contact lookup the caller passes, <<>> when it has none
    macOSVersion,       \* the version the caller passes, NilVersion when it has none
    handleMap,          \* the handle map the caller holds and passes to GetMessage
    last,               \* the last call: operation, argument, failing storage call, outcome
    openCursors         \* cursors acquired and not released

store == <<handle, chat, chat_message_join, message>>
component == <<selfHandle, datetimeFormula>>
vars ==
    <<handle, chat, chat_message_join, message, selfHandle, datetimeFormula,
      contactMap, macOSVersion, handleMap, last, openCursors>>

\* ------------------------------------------------------------- the store's rows
SeqsUpTo(S, n) == UNION {[1..k -> S] : k \in 0..n}

HandleRows == [ROWID : HandleIDs, id : Addresses \cup {NullText}]
ChatRows ==
    {r \in [ROWID : ChatIDs, guid : {"iMessage;-;chat123"},
            chat_identifier : {"chat123", NullText}, display_name : {"Family", NullText}] :
        r.chat_identifier = NullText => r.display_name = "Family"}
JoinRows == [chat_id : ChatIDs, message_id : MessageIDs \cup {NullInt}]
MessageRows ==
    [ROWID : MessageIDs, is_from_me : {0, 1}, handle_id : HandleIDs \cup {NullInt},
     text : {"hello"}, date : MessageDates]

BaseHandle == <<[ROWID |-> 1, id |-> "+15551234567"]>>
BaseChat ==
    <<[ROWID |-> 1, guid |-> "iMessage;-;chat123", chat_identifier |-> "chat123",
       display_name |-> NullText]>>
BaseJoin == <<[chat_id |-> 1, message_id |-> 1]>>
BaseMessage ==
    <<[ROWID |-> 1, is_from_me |-> 0, handle_id |-> 1, text |-> "hello",
       date |-> 1000000000]>>

\* Contact lookups: none, or one contact.
NoContacts == <<>>
HandleContactMaps ==
    {NoContacts} \cup
    {("+15551234567" :> c) : c \in {d \in Cards : d.FormattedName = ""}}
ChatContactMaps ==
    {NoContacts} \cup
    {(k :> c) : k \in {"Family", "chat123"},
                c \in {d \in Cards : ~d.hasName /\ d.GivenName = ""}}

Versions ==
    {NilVersion, <<9, 15, 0>>, <<10, 12, 0>>, <<10, 12, 6>>, <<10, 13, 0>>,
     <<10, 13, 1>>, <<10, 14, 0>>, <<11, 0, 0>>}

\* The storage call that fails: none (0), the Query (1), or the Next call in front
\* of one of the rows.
FailAts == 0..(MaxRows + 1)

NoCall == [op |-> "none", arg |-> 0, failAt |-> 0, out |-> ZeroOutcome]

\* NewChatDB(db, selfHandle) over a store.  The store differs from the base
\* contents in at most one relation (every operation reads one relation), and the
\* caller's contact lookup and version vary with the relation they bear on.
Init ==
    /\ selfHandle \in SelfHandles
    /\ handleMap = <<>>
    /\ last = NoCall
    /\ openCursors = 0
    /\ \/ /\ handle \in SeqsUpTo(HandleRows, MaxRows)
          /\ contactMap \in HandleContactMaps
          /\ chat = BaseChat /\ chat_message_join = BaseJoin /\ message = BaseMessage
          /\ datetimeFormula = "" /\ macOSVersion = NilVersion
       \/ /\ chat \in SeqsUpTo(ChatRows, MaxRows)
          /\ contactMap \in ChatContactMaps
          /\ handle = BaseHandle /\ chat_message_join = BaseJoin /\ message = BaseMessage
          /\ datetimeFormula = "" /\ macOSVersion = NilVersion
       \/ /\ chat_message_join \in SeqsUpTo(JoinRows, MaxRows)
          /\ contactMap = NoContacts
          /\ handle = BaseHandle /\ chat = BaseChat /\ message = BaseMessage
          /\ datetimeFormula = "" /\ macOSVersion = NilVersion
       \/ /\ message \in SeqsUpTo(MessageRows, MaxRows)
          /\ contactMap = NoContacts
          /\ handle = BaseHandle /\ chat = BaseChat /\ chat_message_join = BaseJoin
          /\ datetimeFormula = "" /\ macOSVersion = NilVersion
       \/ /\ datetimeFormula \in {"", OverrideFormula}
          /\ macOSVersion \in Versions
          /\ contactMap = NoContacts
          /\ handle = BaseHandle /\ chat = BaseChat /\ chat_message_join = BaseJoin
          /\ message = BaseMessage

\* -------------------------------------------------------------------- actions
Leaves(out) == IF out.open THEN 1 ELSE 0

\* handleMap, err := db.GetHandleMap(contactMap); the caller keeps the map of a
\* call that returned no error.
CallGetHandleMap ==
    \E failAt \in FailAts :
        LET out == GetHandleMap(handle, contactMap, failAt)
        IN  /\ last' = [op |-> "GetHandleMap", arg |-> 0, failAt |-> failAt, out |-> out]
            /\ handleMap' = IF out.err = NoError THEN out.handleMap ELSE handleMap
            /\ openCursors' = openCursors + Leaves(out)
            /\ UNCHANGED <<store, component, contactMap, macOSVersion>>

\* chats, err := db.GetChats(contactMap)
CallGetChats ==
    \E failAt \in FailAts :
        LET out == GetChats(chat, contactMap, failAt)
        IN  /\ last' = [op |-> "GetChats", arg |-> 0, failAt |-> failAt, out |-> out]
            /\ openCursors' = openCursors + Leaves(out)
            /\ UNCHANGED <<store, component, contactMap, macOSVersion, handleMap>>

\* messageIDs, err := db.GetMessageIDs(chatID)
CallGetMessageIDs ==
    \E chatID \in ChatIDs, failAt \in FailAts :
        LET out == GetMessageIDs(chat_message_join, chatID, failAt)
        IN  /\ last' = [op |-> "GetMessageIDs", arg |-> chatID, failAt |-> failAt, out |-> out]
            /\ openCursors' = openCursors + Leaves(out)
            /\ UNCHANGED <<store, component, contactMap, macOSVersion, handleMap>>

\* line, err := db.GetMessage(messageID, handleMap, macOSVersion); the map is
\* passed by reference, so the caller sees it as the call leaves it.
CallGetMessage ==
    \E messageID \in MessageIDs, failAt \in FailAts :
        LET out == GetMessage(message, messageID, handleMap, macOSVersion,
                              datetimeFormula, selfHandle, failAt)
        IN  /\ last' = [op |-> "GetMessage", arg |-> messageID, failAt |-> failAt, out |-> out]
            /\ handleMap' = out.handleMap
            /\ openCursors' = openCursors + Leaves(out)
            /\ UNCHANGED <<store, component, contactMap, macOSVersion>>

Next ==
    \/ CallGetHandleMap
    \/ CallGetChats
    \/ CallGetMessageIDs
    \/ CallGetMessage

Spec == Init /\ [][Next]_vars

\* ------------------------------------------------------------ error taxonomy
IsQueryError(e) ==
    e.ctx \in {"get handles from DB", "query chats table",
               "query chat_message_join table for chat ID", "query message table for ID"}
IsReadError(e) ==
    e.ctx \in {"read handle", "read chat", "read message ID for chat ID",
               "read data for message ID"}
IsDuplicateHandleError(e) == e.ctx = "multiple handles with the same ID"
IsDuplicateMessageError(e) == e.ctx = "multiple messages with the same ID"

\* ------------------------------------------------------------ what the store holds
\* The call in `last` ran with no storage failure.
NoStorageFailure == last.failAt = 0

RowIDs(rows) == {rows[i].ROWID : i \in DOMAIN rows}
RepeatedIDs(rows) ==
    {rows[i].ROWID : i \in {k \in DOMAIN rows :
                              \E j \in DOMAIN rows : j # k /\ rows[j].ROWID = rows[k].ROWID}}
HandleRowsTyped == \A i \in DOMAIN handle : handle[i].id # NullText
ChatRowsTyped ==
    \A i \in DOMAIN chat : chat[i].guid # NullText /\ chat[i].chat_identifier # NullText

\* The rows of the join relation for a chat, and of the message relation for a
\* message identifier, as positions in store order.
JoinPositions(chatID) ==
    {i \in DOMAIN chat_message_join : chat_message_join[i].chat_id = chatID}
MessagePositions(messageID) == {i \in DOMAIN message : message[i].ROWID = messageID}

\* ------------------------------------------------------------------------ C1
\* C1: after a GetHandleMap call with no storage failure over handle rows that
\* carry an address: if the row identifiers are pairwise distinct the call returns
\* no error and a map whose key set is the set of row identifiers; if an identifier
\* repeats, it returns the duplicate-handle error naming a repeated identifier and
\* a nil map.
C1_HandleMapKeys ==
    (last.op = "GetHandleMap" /\ NoStorageFailure /\ HandleRowsTyped) =>
        IF RepeatedIDs(handle) = {}
        THEN /\ last.out.err = NoError
             /\ ~last.out.nil
             /\ DOMAIN last.out.handleMap = RowIDs(handle)
        ELSE /\ IsDuplicateHandleError(last.out.err)
             /\ last.out.err.id \in RepeatedIDs(handle)
             /\ last.out.nil
             /\ last.out.handleMap = <<>>

\* A duplicate identifier in the second of two rows was reported.
C1_Witness ==
    /\ last.op = "GetHandleMap" /\ NoStorageFailure /\ HandleRowsTyped
    /\ Len(handle) = 2 /\ handle[1].ROWID = handle[2].ROWID
    /\ IsDuplicateHandleError(last.out.err)
    /\ last.out.nil

\* ------------------------------------------------------------------------ C8
\* The value the map is to hold for an address: the contact's given name when the
\* address is a contact with a non-empty given name, the address otherwise.
HasGivenName(address) ==
    /\ address \in DOMAIN contactMap
    /\ contactMap[address].hasName
    /\ contactMap[address].GivenName # ""
HandleValueHolds(address, value) ==
    /\ HasGivenName(address) => value = contactMap[address].GivenName
    /\ ~HasGivenName(address) => value = address

ChatBaseName(row) ==
    IF row.display_name \in {NullText, ""} THEN row.chat_identifier ELSE row.display_name
HasFormattedName(name) ==
    name \in DOMAIN contactMap /\ contactMap[name].FormattedName # ""
ChatNameHolds(row, displayName) ==
    /\ HasFormattedName(ChatBaseName(row)) =>
           displayName = contactMap[ChatBaseName(row)].FormattedName
    /\ ~HasFormattedName(ChatBaseName(row)) => displayName = ChatBaseName(row)

\* C7: after a GetChats call with no storage failure over chat rows that carry a
\* guid and an identifier, the call returns no error and one Chat per row, in row
\* order, with the row's identifier and guid, whether or not identifiers repeat;
\* its display name is the contact's formatted name when the base name (the
\* display-name column if non-empty, else the chat identifier) is a contact with a
\* non-empty formatted name, and the base name otherwise.
C7_ChatNames ==
    (last.op = "GetChats" /\ NoStorageFailure /\ ChatRowsTyped) =>
        /\ last.out.err = NoError
        /\ ~last.out.nil
        /\ Len(last.out.chats) = Len(chat)
        /\ \A i \in DOMAIN chat :
            /\ last.out.chats[i].ID = chat[i].ROWID
            /\ last.out.chats[i].GUID = chat[i].guid
            /\ ChatNameHolds(chat[i], last.out.chats[i].DisplayName)

\* Two rows with the same identifier were both returned, one under the formatted
\* name of a contact and one under its chat identifier.
C7_Witness ==
    /\ last.op = "GetChats" /\ NoStorageFailure /\ ChatRowsTyped
    /\ Len(last.out.chats) = 2
    /\ last.out.chats[1].ID = last.out.chats[2].ID
    /\ \E i, j \in 1..2 :
        /\ last.out.chats[i].DisplayName = "The Smiths"
        /\ last.out.chats[j].DisplayName = "chat123"

\* ------------------------------------------------------------------------ C6
\* seq lists the message_id of the join rows at the positions ps, in store order.
RECURSIVE ListsInOrder(_, _)
ListsInOrder(seq, ps) ==
    IF ps = {}
    THEN seq = <<>>
    ELSE LET p == CHOOSE q \in ps : \A r \in ps : q <= r
         IN  /\ seq # <<>>
             /\ Head(seq) = chat_message_join[p].message_id
             /\ ListsInOrder(Tail(seq), ps \ {p})

VersionNumber(v) == v[1] * 10000 + v[2] * 100 + v[3]

\* C3: the formula GetMessage puts in its query is the override when one is set,
\* whatever the version; with no override it is the legacy formula for a supplied
\* version below 10.13 and the modern formula for a version at or above 10.13 and
\* for no version; the date of a returned line is the one that formula gives.
C3_FormulaSelection ==
    last.op = "GetMessage" =>
        /\ datetimeFormula # "" => last.out.formula = datetimeFormula
        /\ (datetimeFormula = "" /\ macOSVersion # NilVersion
                /\ VersionNumber(macOSVersion) < 101300) =>
               last.out.formula = _datetimeFormulaLegacy
        /\ (datetimeFormula = "" /\ macOSVersion # NilVersion
                /\ VersionNumber(macOSVersion) >= 101300) =>
               last.out.formula = _datetimeFormula
        /\ (datetimeFormula = "" /\ macOSVersion = NilVersion) =>
               last.out.formula = _datetimeFormula
        /\ ~last.out.nil =>
               /\ last.out.formula = _datetimeFormulaLegacy =>
                      \E d \in MessageDates : last.out.line[2] = d + EpochOffset
               /\ last.out.formula = _datetimeFormula =>
                      \E d \in MessageDates :
                          last.out.line[2] = (d \div NanoScale) + EpochOffset

\* A line was rendered for version 10.13 exactly, with no override.
C3_Witness ==
    /\ last.op = "GetMessage" /\ ~last.out.nil
    /\ datetimeFormula = "" /\ macOSVersion = <<10, 13, 0>>
    /\ last.out.formula = _datetimeFormula

\* ------------------------------------------------------------------------ C2
\* The rows a GetMessage call selects can all be decoded.
SelectedRowsTyped ==
    \A i \in MessagePositions(last.arg) : message[i].handle_id # NullInt

\* C2: after a GetMessage call with no storage failure whose selected rows can be
\* decoded: with zero rows for the identifier the call returns an error that is
\* neither a read error nor a query error; with more than one row it returns the
\* duplicate-message error naming the identifier; it returns a line and no error
\* exactly when there is one row.
C2_RowCountOutcomes ==
    (last.op = "GetMessage" /\ NoStorageFailure /\ SelectedRowsTyped) =>
        LET n == Cardinality(MessagePositions(last.arg))
        IN  /\ n = 0 => /\ last.out.err # NoError
                        /\ ~IsReadError(last.out.err)
                        /\ ~IsQueryError(last.out.err)
            /\ n > 1 => /\ IsDuplicateMessageError(last.out.err)
                        /\ last.out.err.id = last.arg
            /\ n = 1 <=> (last.out.err = NoError /\ ~last.out.nil)

\* What the code does for the row counts: zero rows give the error of the read
\* step, "read data for message ID <id>", wrapping the closed cursor's error; the
\* other two outcomes are as C2 states them.
RowCountOutcomesOfCode ==
    (last.op = "GetMessage" /\ NoStorageFailure /\ SelectedRowsTyped) =>
        LET n == Cardinality(MessagePositions(last.arg))
        IN  /\ n = 0 => /\ last.out.err = Wrap(ErrRowsClosed, "read data for message ID", last.arg)
                        /\ IsReadError(last.out.err)
                        /\ last.out.nil
            /\ n > 1 => /\ IsDuplicateMessageError(last.out.err)
                        /\ last.out.err.id = last.arg
                        /\ last.out.nil
            /\ n = 1 <=> (last.out.err = NoError /\ ~last.out.nil)

\* ------------------------------------------------------------------------ C4
\* The one row a GetMessage call selects, when it selects one.
SelectedRow == message[CHOOSE i \in MessagePositions(last.arg) : TRUE]
Speaker(line) == line[4]
MapValueOrEmpty(handleID) ==
    IF handleID \in DOMAIN handleMap THEN handleMap[handleID] ELSE ""

\* C4: after a GetMessage call with no storage failure for an identifier with
\* exactly one row, the call returns a line and no error, whatever the row's handle
\* identifier, null included; the speaker of the line is the self-label when the
\* row's is-from-self flag is set, and otherwise the handle map's value for the
\* row's handle identifier, the empty string when that is not a key of the map.
C4_SpeakerResolution ==
    (/\ last.op = "GetMessage" /\ NoStorageFailure
     /\ Cardinality(MessagePositions(last.arg)) = 1) =>
        /\ last.out.err = NoError
        /\ ~last.out.nil
        /\ SelectedRow.is_from_me = 1 => Speaker(last.out.line) = selfHandle
        /\ SelectedRow.is_from_me # 1 =>
               Speaker(last.out.line) = MapValueOrEmpty(SelectedRow.handle_id)

\* What the code does for one row: the speaker is resolved as C4 states when the
\* row's handle identifier is an integer, and the read step fails with an error,
\* whatever the flag, when it is null.
SpeakerResolutionOfCode ==
    (/\ last.op = "GetMessage" /\ NoStorageFailure
     /\ Cardinality(MessagePositions(last.arg)) = 1) =>
        IF SelectedRow.handle_id = NullInt
        THEN /\ last.out.err = Wrap(ErrScanNull, "read data for message ID", last.arg)
             /\ last.out.nil
        ELSE /\ last.out.err = NoError
             /\ ~last.out.nil
             /\ SelectedRow.is_from_me = 1 => Speaker(last.out.line) = selfHandle
             /\ SelectedRow.is_from_me # 1 =>
                    Speaker(last.out.line) = MapValueOrEmpty(SelectedRow.handle_id)

\* ------------------------------------------------------------------------ C5
\* C5: a GetHandleMap, GetChats or GetMessageIDs call that returns no error
\* returns a result built from every row of its query's result set: a key for
\* every handle row, a Chat for every chat row, an identifier for every join row
\* of the chat; so a storage failure during the iteration never yields a result
\* that holds only the rows read before it.
C5_NoPartialSuccess ==
    last.out.err = NoError =>
        /\ last.op = "GetHandleMap" =>
               \A i \in DOMAIN handle : handle[i].ROWID \in DOMAIN last.out.handleMap
        /\ last.op = "GetChats" => Len(last.out.chats) = Len(chat)
        /\ last.op = "GetMessageIDs" =>
               Len(last.out.messageIDs) = Cardinality(JoinPositions(last.arg))

\* ------------------------------------------------------------------------ C9
\* C9: no cursor is open between calls: the cursor a call acquired is released
\* when the call has returned, on every path, and a call acquired a cursor exactly
\* when its query did not fail.
C9_CursorsReleased ==
    /\ openCursors = 0
    /\ ~last.out.open
    /\ last.op # "none" => (last.out.acquired <=> ~IsQueryError(last.out.err))

\* A call returned the duplicate-message error, its cursor not yet at the end of
\* the result set.
C9_Witness ==
    /\ last.op = "GetMessage"
    /\ IsDuplicateMessageError(last.out.err)
    /\ last.out.acquired
    /\ openCursors = 0

\* ----------------------------------------------------------------------- C10
\* C10: every step leaves the four relations of the store, the self-label and
\* the formula override unchanged; a GetMessage step leaves the caller's handle
\* map unchanged; and the map a GetHandleMap step returns when the storage does
\* not fail is determined by the unchanged handle relation and the contact lookup
\* (one key per row identifier, each value resolved from the row's address), so
\* that it equals the map such a call returned in the step before.
C10_ReadOnly ==
    [][/\ store' = store
       /\ component' = component
       /\ last'.op = "GetMessage" => handleMap' = handleMap
       /\ (last'.op = "GetHandleMap" /\ last'.failAt = 0 /\ ~last'.out.nil) =>
              /\ DOMAIN last'.out.handleMap = RowIDs(handle)
              /\ \A i \in DOMAIN handle :
                     HandleValueHolds(handle[i].id, last'.out.handleMap[handle[i].ROWID])
              /\ (last.op = "GetHandleMap" /\ last.failAt = 0 /\ ~last.out.nil) =>
                     last'.out.handleMap = last.out.handleMap]_vars

\* A line was rendered for a message whose handle identifier is not a key of the
\* caller's non-empty handle map.
C10_Witness ==
    /\ last.op = "GetMessage" /\ ~last.out.nil
    /\ Speaker(last.out.line) = ""
    /\ DOMAIN handleMap = {1}

====
